---------------------------- MODULE Spec2Model ----------------------------
(***************************************************************************)
(* Model of the peer connection handler of wgo (src/Peer.go): the Peer     *)
(* struct, the PeerWriter and PeerReader goroutines, the ProcessMessage    *)
(* dispatcher, CheckInterested, TryToRequestPiece and Close.               *)
(*                                                                         *)
(* Bitfield, Wire and PeerQueue are types of the repository whose code is  *)
(* not in Peer.go; they are modelled from their documented contracts.      *)
(* A *Bitfield is a reference: objs is the heap of Bitfield objects and    *)
(* p.bitfield is an index into it (0 is nil), so that the aliasing between *)
(* p.bitfield and the bitfield handed out in a PieceRequest is kept.       *)
(***************************************************************************)
EXTENDS Integers, Sequences, FiniteSets, TLC

\* ------------------------------------------------------------------ bounds
NumPieces == 2      \* numPieces of the swarm (constructor parameter)
MaxReads  == 3      \* messages ReadMsg delivers before the peer goes silent
MaxTime   == 1      \* largest value of time.Seconds() in a run

Pieces == 0 .. (NumPieces - 1)
Addr   == "198.51.100.7:6881"
RemotePeerId == "-XX0000-remote-peer-"

\* ------------------------------------------------------ wire message ids
choke        == 0
unchoke      == 1
interested   == 2
uninterested == 3
have         == 4
bitfieldId   == 5
request      == 6
piece        == 7
cancel       == 8
port         == 9
exit         == 10   \* internal id, never read from the wire
UnknownId    == 99

Message(len, id, pl, a) == [length |-> len, msgId |-> id, payLoad |-> pl, addr |-> a]
ExitMsg  == Message(1, exit, <<>>, Addr)
Msg(id, pl) == Message(1 + Len(pl), id, pl, "")
KeepAliveMsg == Message(0, 0, <<>>, "")

\* --------------------------------------------------------------- Bitfield
\* A Bitfield value is the set of piece indexes that are set.
NewBitfield(n) == {}

NumBytes(n) == (n + 7) \div 8

Pow2(k) == IF k = 0 THEN 1 ELSE IF k = 1 THEN 2 ELSE IF k = 2 THEN 4
           ELSE IF k = 3 THEN 8 ELSE IF k = 4 THEN 16 ELSE IF k = 5 THEN 32
           ELSE IF k = 6 THEN 64 ELSE 128

RECURSIVE ByteSum(_)
ByteSum(S) == IF S = {} THEN 0
              ELSE LET i == CHOOSE x \in S : TRUE
                   IN Pow2(7 - (i % 8)) + ByteSum(S \ {i})

\* Bitfield.Bytes(): packed bits, most significant bit first.
Bytes(b) == [k \in 1 .. NumBytes(NumPieces) |->
               ByteSum({i \in b : i \div 8 = k - 1})]

\* NewBitfieldFromBytes(n, data): fails when the byte length does not fit n;
\* on failure the returned *Bitfield is nil (0).
NewBitfieldFromBytes(n, data) ==
    IF Len(data) # NumBytes(n)
    THEN [ok |-> FALSE, bits |-> {}]
    ELSE [ok |-> TRUE,
          bits |-> {i \in 0 .. (n - 1) :
                      (data[(i \div 8) + 1] \div Pow2(7 - (i % 8))) % 2 = 1}]

Set(b, i) == b \cup {i}
HasMorePieces(ours, other) == (other \ ours) # {}
Completed(b) == b = Pieces

\* binary.BigEndian.Uint32
Uint32(p) == ((p[1] * 256 + p[2]) * 256 + p[3]) * 256 + p[4]
PutUint32(i) == << (i \div 16777216) % 256, (i \div 65536) % 256,
                   (i \div 256) % 256, i % 256 >>

\* ------------------------------------------------- messages the peer sends
InvalidPayloads == { <<>>, Bytes(Pieces) \o <<0>> }

WireMsgs ==
    { KeepAliveMsg }
    \cup { Msg(id, <<>>) : id \in {choke, unchoke, interested, uninterested,
                                    request, port, UnknownId} }
    \cup { Msg(have, PutUint32(i)) : i \in Pieces }
    \cup { Msg(bitfieldId, Bytes(S)) : S \in SUBSET Pieces }
    \cup { Msg(bitfieldId, pl) : pl \in InvalidPayloads }
    \cup { Msg(piece, <<0>>) }
    \cup { Msg(cancel, <<0>>) }

\* ------------------------------------------------------------------ state
VARIABLES
    pc,                 \* position of PeerWriter and of PeerReader
    conn,               \* the TCP socket: "none", "open", "closed"
    connCloses,         \* number of wire.Close() calls executed
    wire,               \* p.wire # nil
    remote_peerId,      \* "" until Handshake returns the peer's id
    incomingClosed,     \* close(p.incoming) has been executed
    incomingCloses,     \* number of close(p.incoming) calls executed
    sendOnClosed,       \* a send on p.incoming was executed after its close
    am_choking, am_interested, peer_choking, peer_interested,
    received_keepalive,
    our_bitfield,       \* the local completion bitfield (read only here)
    bitfield,           \* p.bitfield: index into objs, 0 = nil
    objs,               \* heap of remote Bitfield objects
    queue,              \* messages accepted by writeQueue, not yet written
    notifs,             \* sends executed by CheckInterested on p.incoming
    requests,           \* PieceRequests sent on p.requests
    answered,           \* how many of them the PieceMgr has answered
    pieces,             \* messages sent on p.pieces
    outgoing,           \* messages sent on p.outgoing
    delete,             \* messages sent on p.delete
    wireFirst,          \* the first message WriteMsg has written, if any
    tickReady,          \* the keepAlive ticker has a tick pending
    rmsg,               \* msg of PeerReader
    rerr,               \* err of PeerReader
    reads               \* number of successful ReadMsg calls

flags == <<am_choking, am_interested, peer_choking, peer_interested>>
proto == <<flags, our_bitfield, bitfield, objs>>
closing == <<conn, connCloses, wire, remote_peerId, incomingClosed,
            incomingCloses>>
sched == <<notifs, requests, answered, pieces, delete>>
reader == <<rmsg, rerr, reads, received_keepalive>>
vars == <<pc, closing, sendOnClosed, proto, queue, sched, outgoing,
          wireFirst, tickReady, reader>>

Writer == "PeerWriter"
Reader == "PeerReader"
Tasks == {Writer, Reader}

NoErr == "nil"
ReadErr == "read error"
InvalidBitfield == "Invalid bitfield"
UnknownMessage == "Unknown message"

\* NewPeer
Init ==
    /\ pc = [t \in Tasks |-> IF t = Writer THEN "resolve" ELSE "idle"]
    /\ conn = "none" /\ connCloses = 0 /\ wire = FALSE
    /\ remote_peerId = ""
    /\ incomingClosed = FALSE /\ incomingCloses = 0 /\ sendOnClosed = FALSE
    /\ am_choking = TRUE /\ am_interested = FALSE
    /\ peer_choking = TRUE /\ peer_interested = FALSE
    /\ received_keepalive = 0
    /\ our_bitfield \in SUBSET Pieces
    /\ objs = << NewBitfield(NumPieces) >> /\ bitfield = 1
    /\ queue = <<>> /\ notifs = <<>> /\ requests = <<>> /\ answered = 0
    /\ pieces = <<>> /\ outgoing = <<>> /\ delete = <<>>
    /\ wireFirst = <<>> /\ tickReady = FALSE
    /\ rmsg = KeepAliveMsg /\ rerr = NoErr /\ reads = 0

\* ch <- msgs on p.incoming: the writeQueue takes the messages while the
\* channel is open; a send executed after close(p.incoming) is recorded and
\* its message is dropped.
SendIncoming(msgs) ==
    IF msgs = <<>> THEN UNCHANGED <<queue, sendOnClosed>>
    ELSE IF incomingClosed
         THEN sendOnClosed' = TRUE /\ UNCHANGED queue
         ELSE queue' = queue \o msgs /\ UNCHANGED sendOnClosed

\* The end of a step of task t: on success t goes on at next; on error
\*   p.outgoing <- message{length: 1, msgId: exit, addr: p.addr}; return
\* and the return runs the deferred p.Close() when one is registered.
Continue(t, ok, next, deferred) ==
    IF ok
    THEN pc' = [pc EXCEPT ![t] = next] /\ UNCHANGED outgoing
    ELSE /\ outgoing' = Append(outgoing, ExitMsg)
         /\ pc' = [pc EXCEPT ![t] = IF deferred THEN "close" ELSE "done"]

\* ------------------------------------------------------------- PeerWriter
\* wire.WriteMsg(msg): succeeds only on an open socket.  wireFirst is <<>>
\* or a one element sequence holding the first message written.
WriteMsg(msg, ok) ==
    IF ok
    THEN /\ conn = "open"
         /\ wireFirst' = IF wireFirst = <<>> THEN <<msg>> ELSE wireFirst
    ELSE UNCHANGED wireFirst

\* net.ResolveTCPAddr; no Close is deferred yet
W_Resolve ==
    /\ pc[Writer] = "resolve"
    /\ \E ok \in BOOLEAN : Continue(Writer, ok, "dial", FALSE)
    /\ UNCHANGED <<closing, sendOnClosed, proto, queue, sched, wireFirst,
                   tickReady, reader>>

\* net.DialTCP, then defer p.Close()
W_Dial ==
    /\ pc[Writer] = "dial"
    /\ \E ok \in BOOLEAN :
         /\ Continue(Writer, ok, "settimeout", FALSE)
         /\ conn' = IF ok THEN "open" ELSE conn
    /\ UNCHANGED <<connCloses, wire, remote_peerId, incomingClosed,
                   incomingCloses, sendOnClosed, proto, queue, sched,
                   wireFirst, tickReady, reader>>

\* W_SetTimeout that returns on error without reporting the exit
W_SetTimeoutSilent ==
    /\ pc[Writer] = "settimeout"
    /\ \E ok \in BOOLEAN :
         pc' = [pc EXCEPT ![Writer] = IF ok THEN "handshake" ELSE "close"]
    /\ UNCHANGED <<closing, sendOnClosed, proto, queue, sched, outgoing,
                   wireFirst, tickReady, reader>>

\* conn.SetTimeout(TIMEOUT); p.wire is still nil here
W_SetTimeout ==
    /\ pc[Writer] = "settimeout"
    /\ \E ok \in BOOLEAN : Continue(Writer, ok, "handshake", TRUE)
    /\ UNCHANGED <<closing, sendOnClosed, proto, queue, sched, wireFirst,
                   tickReady, reader>>

\* W_Handshake with go p.PeerReader() placed before the error check
W_HandshakeLaunchFirst ==
    /\ pc[Writer] = "handshake"
    /\ wire' = TRUE
    /\ \E ok \in BOOLEAN :
         /\ pc' = [pc EXCEPT ![Writer] = IF ok THEN "announce" ELSE "close",
                             ![Reader] = "read"]
         /\ outgoing' = IF ok THEN outgoing ELSE Append(outgoing, ExitMsg)
         /\ remote_peerId' = IF ok THEN RemotePeerId ELSE ""
    /\ UNCHANGED <<conn, connCloses, incomingClosed, incomingCloses,
                   sendOnClosed, proto, queue, sched, wireFirst, tickReady,
                   reader>>

\* p.wire = NewWire(...); p.remote_peerId, err = p.wire.Handshake()
W_Handshake ==
    /\ pc[Writer] = "handshake"
    /\ wire' = TRUE
    /\ \E ok \in BOOLEAN :
         /\ Continue(Writer, ok, "launch", TRUE)
         /\ remote_peerId' = IF ok THEN RemotePeerId ELSE ""
    /\ UNCHANGED <<conn, connCloses, incomingClosed, incomingCloses,
                   sendOnClosed, proto, queue, sched, wireFirst, tickReady,
                   reader>>

\* go p.PeerReader()
W_Launch ==
    /\ pc[Writer] = "launch"
    /\ pc' = [pc EXCEPT ![Writer] = "announce", ![Reader] = "read"]
    /\ UNCHANGED <<closing, sendOnClosed, proto, queue, sched, outgoing,
                   wireFirst, tickReady, reader>>

\* W_Announce without its WriteMsg: the announcement is forgotten
W_AnnounceSkipped ==
    /\ pc[Writer] = "announce"
    /\ pc' = [pc EXCEPT ![Writer] = "select"]
    /\ tickReady' = FALSE
    /\ UNCHANGED <<closing, sendOnClosed, proto, queue, sched, outgoing,
                   wireFirst, reader>>

\* WriteMsg of our bitfield, then keepAlive := time.Tick(KEEP_ALIVE_MSG)
W_Announce ==
    /\ pc[Writer] = "announce"
    /\ \E ok \in BOOLEAN :
         /\ WriteMsg(Msg(bitfieldId, Bytes(our_bitfield)), ok)
         /\ Continue(Writer, ok, "select", TRUE)
    /\ tickReady' = FALSE
    /\ UNCHANGED <<closing, sendOnClosed, proto, queue, sched, reader>>

\* case msg := <- p.in: write it and restart the ticker
W_Send ==
    /\ pc[Writer] = "select"
    /\ queue # <<>>
    /\ queue' = Tail(queue)
    /\ \E ok \in BOOLEAN :
         /\ WriteMsg(Head(queue), ok)
         /\ Continue(Writer, ok, "select", TRUE)
         /\ tickReady' = IF ok THEN FALSE ELSE tickReady
    /\ UNCHANGED <<closing, sendOnClosed, proto, sched, reader>>

\* W_KeepAlive that does not test the error of its WriteMsg
W_KeepAliveNoErrCheck ==
    /\ pc[Writer] = "select"
    /\ tickReady
    /\ tickReady' = FALSE
    /\ \E ok \in BOOLEAN : WriteMsg(KeepAliveMsg, ok)
    /\ UNCHANGED <<pc, closing, sendOnClosed, proto, queue, sched, outgoing,
                   reader>>

\* case <- keepAlive: write a zero length message
W_KeepAlive ==
    /\ pc[Writer] = "select"
    /\ tickReady
    /\ tickReady' = FALSE
    /\ \E ok \in BOOLEAN :
         /\ WriteMsg(KeepAliveMsg, ok)
         /\ Continue(Writer, ok, "select", TRUE)
    /\ UNCHANGED <<closing, sendOnClosed, proto, queue, sched, reader>>

\* the ticker created by time.Tick delivers a tick
Tick ==
    /\ pc[Writer] = "select"
    /\ ~tickReady
    /\ tickReady' = TRUE
    /\ UNCHANGED <<pc, closing, sendOnClosed, proto, queue, sched, outgoing,
                   wireFirst, reader>>

\* ------------------------------------------------------------------ Close
\* Close that closes the socket without the exit marker on p.pieces
CloseNoExitMarker(t) ==
    /\ pc[t] = "close"
    /\ pc' = [pc EXCEPT ![t] = IF wire THEN "closewire" ELSE "done"]
    /\ UNCHANGED <<closing, sendOnClosed, proto, queue, sched, outgoing,
                   wireFirst, tickReady, reader>>

\* if p.wire != nil { p.pieces <- Request{msg: exit} ...
Close(t) ==
    /\ pc[t] = "close"
    /\ IF wire
       THEN pieces' = Append(pieces, ExitMsg)
            /\ pc' = [pc EXCEPT ![t] = "closewire"]
       ELSE pieces' = pieces /\ pc' = [pc EXCEPT ![t] = "done"]
    /\ UNCHANGED <<closing, sendOnClosed, proto, queue, notifs, requests,
                   answered, delete, outgoing, wireFirst, tickReady, reader>>

\* p.wire.Close()
CloseWire(t) ==
    /\ pc[t] = "closewire"
    /\ conn' = "closed"
    /\ connCloses' = connCloses + 1
    /\ pc' = [pc EXCEPT ![t] = "closeincoming"]
    /\ UNCHANGED <<wire, remote_peerId, incomingClosed, incomingCloses,
                   sendOnClosed, proto, queue, sched, outgoing, wireFirst,
                   tickReady, reader>>

\* closed(ch) of the Go release this code is written for is false on an open
\* channel, and on a closed one turns true only once the receiver (the
\* writeQueue) has seen the close: both answers are possible after a close.
Closed(isClosed) == IF isClosed THEN BOOLEAN ELSE {FALSE}

\* if !closed(p.incoming) { close(p.incoming) }
CloseIncoming(t) ==
    /\ pc[t] = "closeincoming"
    /\ \E c \in Closed(incomingClosed) :
         IF c THEN UNCHANGED <<incomingClosed, incomingCloses>>
         ELSE /\ incomingClosed' = TRUE
              /\ incomingCloses' = incomingCloses + 1
    /\ pc' = [pc EXCEPT ![t] = "done"]
    /\ UNCHANGED <<conn, connCloses, wire, remote_peerId, sendOnClosed,
                   proto, queue, sched, outgoing, wireFirst, tickReady,
                   reader>>

\* ---------------------------------------------- interest and request logic
\* CheckInterested without its first branch: interest is never withdrawn
CheckInterestedNoDrop(am, ours, remote) ==
    IF ~am /\ HasMorePieces(ours, remote)
    THEN [am_interested |-> TRUE, sent |-> << Msg(interested, <<>>) >>]
    ELSE [am_interested |-> am, sent |-> <<>>]

\* CheckInterested that does not test am_interested: level triggered
CheckInterestedLevel(am, ours, remote) ==
    IF HasMorePieces(ours, remote)
    THEN [am_interested |-> TRUE, sent |-> << Msg(interested, <<>>) >>]
    ELSE [am_interested |-> FALSE, sent |-> << Msg(uninterested, <<>>) >>]

\* CheckInterested: the new am_interested and the messages sent on p.incoming
CheckInterested(am, ours, remote) ==
    IF am /\ ~HasMorePieces(ours, remote)
    THEN [am_interested |-> FALSE, sent |-> << Msg(uninterested, <<>>) >>]
    ELSE IF ~am /\ HasMorePieces(ours, remote)
    THEN [am_interested |-> TRUE, sent |-> << Msg(interested, <<>>) >>]
    ELSE [am_interested |-> am, sent |-> <<>>]

\* A PieceRequest holds the *Bitfield p.bitfield (a reference into the heap),
\* the response channel p.incoming and the address; atSend records what the
\* referenced Bitfield held when the request was sent.
PieceRequest(ref, heap) ==
    [bitfield |-> ref, response |-> "incoming", addr |-> Addr,
     atSend |-> heap[ref]]

\* TryToRequestPiece that tests our own bitfield, not the peer's
TryToRequestPieceLocal(am, pchoking, ref, heap) ==
    IF am /\ ~pchoking /\ ~Completed(our_bitfield)
    THEN << PieceRequest(ref, heap) >>
    ELSE <<>>

\* TryToRequestPiece without the test of peer_choking
TryToRequestPieceIgnoresChoke(am, pchoking, ref, heap) ==
    IF am /\ ~Completed(heap[ref])
    THEN << PieceRequest(ref, heap) >>
    ELSE <<>>

\* TryToRequestPiece: the PieceRequests sent on p.requests
TryToRequestPiece(am, pchoking, ref, heap) ==
    IF am /\ ~pchoking /\ ~Completed(heap[ref])
    THEN << PieceRequest(ref, heap) >>
    ELSE <<>>

KnownIds == {choke, unchoke, interested, uninterested, have, bitfieldId,
             request, piece, cancel, port}

\* ProcessError without the default branch of the switch
ProcessErrorNoDefault(msg) ==
    IF msg.msgId = bitfieldId
         /\ ~NewBitfieldFromBytes(NumPieces, msg.payLoad).ok
    THEN InvalidBitfield
    ELSE NoErr

\* The error ProcessMessage returns for msg
ProcessError(msg) ==
    IF msg.msgId = bitfieldId
         /\ ~NewBitfieldFromBytes(NumPieces, msg.payLoad).ok
    THEN InvalidBitfield
    ELSE IF msg.msgId \notin KnownIds THEN UnknownMessage ELSE NoErr

\* Some PieceRequest holds the Bitfield at heap index ref
Referenced(ref) == \E k \in 1 .. Len(requests) : requests[k].bitfield = ref

\* ProcessMessage whose interested case also calls TryToRequestPiece
ProcessMessageRequestsOnInterested(msg) ==
    LET id   == msg.msgId
        nb   == NewBitfieldFromBytes(NumPieces, msg.payLoad)
        err  == ProcessError(msg)
        pchk == IF id = choke THEN TRUE
                ELSE IF id = unchoke THEN FALSE ELSE peer_choking
        pint == IF id = interested THEN TRUE
                ELSE IF id = uninterested THEN FALSE ELSE peer_interested
        heap == IF id = have
                THEN [objs EXCEPT ![bitfield] = Set(@, Uint32(msg.payLoad))]
                ELSE IF id = bitfieldId /\ nb.ok
                THEN (IF Referenced(bitfield)
                      THEN Append(objs, nb.bits)
                      ELSE [objs EXCEPT ![bitfield] = nb.bits])
                ELSE objs
        \* p.bitfield, err = NewBitfieldFromBytes(...) assigns both results
        ref  == IF id = bitfieldId
                THEN (IF nb.ok
                      THEN (IF Referenced(bitfield) THEN Len(objs) + 1
                            ELSE bitfield)
                      ELSE 0)
                ELSE bitfield
        ci   == IF err = NoErr /\ id \in {unchoke, have, bitfieldId, piece}
                THEN CheckInterested(am_interested, our_bitfield, heap[ref])
                ELSE [am_interested |-> am_interested, sent |-> <<>>]
        rq   == IF id \in {unchoke, have, piece, interested}
                THEN TryToRequestPiece(ci.am_interested, pchk, ref, heap)
                ELSE <<>>
    IN  /\ peer_choking' = pchk
        /\ peer_interested' = pint
        /\ objs' = heap
        /\ bitfield' = ref
        /\ pieces' = IF id = piece THEN Append(pieces, msg) ELSE pieces
        /\ delete' = IF id = cancel THEN Append(delete, msg) ELSE delete
        /\ am_interested' = ci.am_interested
        /\ notifs' = notifs \o ci.sent
        /\ SendIncoming(ci.sent)
        /\ requests' = requests \o rq
        /\ rerr' = err
        /\ UNCHANGED <<am_choking, our_bitfield, answered>>

\* ProcessMessage(msg): the switch on msg.msgId.  A new Bitfield takes the
\* heap slot of the one it replaces when no PieceRequest holds the old one.
ProcessMessage(msg) ==
    LET id   == msg.msgId
        nb   == NewBitfieldFromBytes(NumPieces, msg.payLoad)
        err  == ProcessError(msg)
        pchk == IF id = choke THEN TRUE
                ELSE IF id = unchoke THEN FALSE ELSE peer_choking
        pint == IF id = interested THEN TRUE
                ELSE IF id = uninterested THEN FALSE ELSE peer_interested
        heap == IF id = have
                THEN [objs EXCEPT ![bitfield] = Set(@, Uint32(msg.payLoad))]
                ELSE IF id = bitfieldId /\ nb.ok
                THEN (IF Referenced(bitfield)
                      THEN Append(objs, nb.bits)
                      ELSE [objs EXCEPT ![bitfield] = nb.bits])
                ELSE objs
        \* p.bitfield, err = NewBitfieldFromBytes(...) assigns both results
        ref  == IF id = bitfieldId
                THEN (IF nb.ok
                      THEN (IF Referenced(bitfield) THEN Len(objs) + 1
                            ELSE bitfield)
                      ELSE 0)
                ELSE bitfield
        ci   == IF err = NoErr /\ id \in {unchoke, have, bitfieldId, piece}
                THEN CheckInterested(am_interested, our_bitfield, heap[ref])
                ELSE [am_interested |-> am_interested, sent |-> <<>>]
        rq   == IF id \in {unchoke, have, piece}
                THEN TryToRequestPiece(ci.am_interested, pchk, ref, heap)
                ELSE <<>>
    IN  /\ peer_choking' = pchk
        /\ peer_interested' = pint
        /\ objs' = heap
        /\ bitfield' = ref
        /\ pieces' = IF id = piece THEN Append(pieces, msg) ELSE pieces
        /\ delete' = IF id = cancel THEN Append(delete, msg) ELSE delete
        /\ am_interested' = ci.am_interested
        /\ notifs' = notifs \o ci.sent
        /\ SendIncoming(ci.sent)
        /\ requests' = requests \o rq
        /\ rerr' = err
        /\ UNCHANGED <<am_choking, our_bitfield, answered>>

\* ------------------------------------------------------------- PeerReader
\* for p.wire != nil { msg, err := p.wire.ReadMsg() ...
\* ReadMsg succeeds only on an open socket.
R_Read ==
    /\ pc[Reader] = "read"
    /\ IF ~wire
       THEN /\ pc' = [pc EXCEPT ![Reader] = "close"]
            /\ UNCHANGED <<rmsg, rerr, reads, outgoing>>
       ELSE \E ok \in BOOLEAN :
              /\ Continue(Reader, ok, "got", TRUE)
              /\ IF ok
                 THEN /\ conn = "open"
                      /\ reads < MaxReads
                      /\ reads' = reads + 1
                      /\ rmsg' \in WireMsgs
                      /\ rerr' = NoErr
                 ELSE /\ rerr' = ReadErr
                      /\ UNCHANGED <<rmsg, reads>>
    /\ UNCHANGED <<closing, sendOnClosed, proto, queue, sched, wireFirst,
                   tickReady, received_keepalive>>

\* R_KeepAlive that also hands the zero length message to the dispatcher
R_KeepAliveDispatched ==
    /\ pc[Reader] = "got"
    /\ rmsg.length = 0
    /\ \E now \in 1 .. MaxTime :
         now >= received_keepalive /\ received_keepalive' = now
    /\ ProcessMessage(rmsg)
    /\ Continue(Reader, ProcessError(rmsg) = NoErr, "read", TRUE)
    /\ UNCHANGED <<closing, wireFirst, tickReady, rmsg, reads>>

\* if msg.length == 0 { p.received_keepalive = time.Seconds() }
R_KeepAlive ==
    /\ pc[Reader] = "got"
    /\ rmsg.length = 0
    /\ \E now \in 1 .. MaxTime :
         now >= received_keepalive /\ received_keepalive' = now
    /\ pc' = [pc EXCEPT ![Reader] = "read"]
    /\ UNCHANGED <<closing, sendOnClosed, proto, queue, sched, outgoing,
                   wireFirst, tickReady, rmsg, rerr, reads>>

\* else { err := p.ProcessMessage(*msg) ...
\* msg is dead after the iteration: rmsg goes back to its zero value.
R_Process ==
    /\ pc[Reader] = "got"
    /\ rmsg.length # 0
    /\ ProcessMessage(rmsg)
    /\ Continue(Reader, ProcessError(rmsg) = NoErr, "read", TRUE)
    /\ rmsg' = KeepAliveMsg
    /\ UNCHANGED <<closing, wireFirst, tickReady, reads, received_keepalive>>

\* ------------------------------------------------------------ environment
\* The PieceMgr answers a PieceRequest with a request message on its
\* response channel.
PM_Respond ==
    /\ answered < Len(requests)
    /\ answered' = answered + 1
    /\ SendIncoming(<< Msg(request, <<0>>) >>)
    /\ UNCHANGED <<pc, closing, proto, notifs, requests, pieces, delete,
                   outgoing, wireFirst, tickReady, reader>>

Next ==
    \/ W_Resolve \/ W_Dial \/ W_SetTimeout \/ W_Handshake \/ W_Launch
    \/ W_Announce \/ W_Send \/ W_KeepAlive \/ Tick
    \/ R_Read \/ R_KeepAlive \/ R_Process
    \/ PM_Respond
    \/ \E t \in Tasks : Close(t)
    \/ \E t \in Tasks : CloseWire(t)
    \/ \E t \in Tasks : CloseIncoming(t)

Spec == Init /\ [][Next]_vars

\* The steps of each goroutine
WriterNext ==
    \/ W_Resolve \/ W_Dial \/ W_SetTimeout \/ W_Handshake \/ W_Launch
    \/ W_Announce \/ W_Send \/ W_KeepAlive
    \/ Close(Writer) \/ CloseWire(Writer) \/ CloseIncoming(Writer)

ReaderNext ==
    \/ R_Read \/ R_KeepAlive \/ R_Process
    \/ Close(Reader) \/ CloseWire(Reader) \/ CloseIncoming(Reader)

\* The scheduler runs every goroutine that can take a step, the ticker
\* of time.Tick fires, I/O on the socket returns within TIMEOUT, and the
\* receivers of p.outgoing and p.pieces take what is sent to them (a send
\* on these channels is part of the sender's step).
LiveSpec ==
    /\ Init /\ [][Next]_vars
    /\ WF_vars(WriterNext) /\ WF_vars(ReaderNext) /\ WF_vars(Tick)

TypeOK ==
    /\ pc \in [Tasks -> {"resolve", "dial", "settimeout", "handshake",
                         "launch", "announce", "select", "idle", "read",
                         "got", "close", "closewire", "closeincoming",
                         "done"}]
    /\ conn \in {"none", "open", "closed"}
    /\ bitfield \in 0 .. Len(objs)
    /\ \A k \in 1 .. Len(objs) : objs[k] \subseteq Pieces

\* ---------------------------------------------------------------- claims
\* A step of PeerReader that handles the message it has read
ReaderStep == pc[Reader] = "got" /\ pc'[Reader] # "got"
\* ... and dispatches it, the message id being one of ids
DispatchStep(ids) ==
    ReaderStep /\ rmsg.length # 0 /\ rmsg.msgId \in ids

\* C1: whenever TryToRequestPiece is evaluated (unchoke, have, piece), one
\* PieceRequest is sent if and only if am_interested, not peer_choking and
\* the LOCAL bitfield is not completed; otherwise none is sent.
C1_RequestIffLocalIncomplete ==
    [][DispatchStep({unchoke, have, piece}) =>
         /\ Len(requests') \in {Len(requests), Len(requests) + 1}
         /\ (Len(requests') = Len(requests) + 1)
              <=> (am_interested' /\ ~peer_choking'
                   /\ ~Completed(our_bitfield))]_vars

\* C2: over all invocations of Close of one connection the socket is closed
\* at most once and p.incoming is closed at most once.
C2_CloseAtMostOnce == connCloses <= 1 /\ incomingCloses <= 1

Finished == pc[Writer] = "done" /\ pc[Reader] \in {"idle", "done"}

\* C3: a connection that fails sends exactly one exit message with its
\* address on p.outgoing, PeerWriter and PeerReader counted together.
C3_ExactlyOneExit ==
    /\ Len(outgoing) <= 1
    /\ Finished => Len(outgoing) = 1
    /\ \A k \in 1 .. Len(outgoing) : outgoing[k] = ExitMsg

\* C4: the first message PeerWriter writes on an established connection is
\* the announcement of the local bitfield: no queued message and no
\* keep-alive is written before it.
C4_BitfieldFirst ==
    wireFirst # <<>> =>
        wireFirst = << Msg(bitfieldId, Bytes(our_bitfield)) >>

\* C4 witness: the announcement was written and after it PeerWriter wrote an
\* interest notification taken from the queue.
C4_Witness ==
    /\ wireFirst = << Msg(bitfieldId, Bytes(our_bitfield)) >>
    /\ pc[Writer] = "select"
    /\ notifs # <<>> /\ queue = <<>> /\ ~sendOnClosed

C6_InterestMatchesBitfields ==
    [][(DispatchStep({unchoke, have, bitfieldId, piece})
          /\ rerr' = NoErr) =>
         (am_interested' <=> (objs'[bitfield'] \ our_bitfield) # {})]_vars

\* C6 witness: interest was declared and later withdrawn.
C6_Witness == Len(notifs) = 2 /\ ~am_interested /\ pc[Reader] = "read"

InvalidStep ==
    DispatchStep({bitfieldId})
      /\ Len(rmsg.payLoad) # NumBytes(NumPieces)

\* C8: dispatching a bitfield message of the wrong length fails with
\* "Invalid bitfield", leaves remoteBitfield as it was, a bitfield of
\* numPieces, and recomputes no interest and sends no request.
C8_InvalidBitfieldNoMutation ==
    [][InvalidStep =>
         /\ rerr' = InvalidBitfield
         /\ bitfield' = bitfield /\ objs' = objs
         /\ bitfield' \in 1 .. Len(objs')
         /\ am_interested' = am_interested
         /\ notifs' = notifs /\ requests' = requests]_vars

\* C9: dispatching an unknown message id returns an error and PeerReader
\* stops dispatching; in that step and ever after none of the four flags
\* nor remoteBitfield changes and no interest notification and no
\* PieceRequest is sent.
C9_UnknownIdStops ==
    [][/\ DispatchStep({UnknownId}) =>
            (rerr' = UnknownMessage /\ pc'[Reader] = "close")
       /\ (rerr' = UnknownMessage) =>
            /\ pc'[Reader] \notin {"read", "got"}
            /\ UNCHANGED <<flags, bitfield, objs, notifs, requests>>]_vars

\* C9 witness: an unknown id arrived after interest had been declared and
\* a PieceRequest sent, and PeerReader has returned.
C9_Witness ==
    /\ rerr = UnknownMessage /\ pc[Reader] = "done"
    /\ am_interested /\ requests # <<>>

\* C10: handling a zero length message sets received_keepalive and leaves
\* the four flags and remoteBitfield unchanged; nothing is sent to the
\* write queue, the PieceMgr or the supervisor.
C10_KeepAliveFrame ==
    [][(ReaderStep /\ rmsg.length = 0) =>
         /\ received_keepalive' >= 1
         /\ pc'[Reader] = "read"
         /\ UNCHANGED <<flags, bitfield, objs, queue, sendOnClosed, notifs,
                        requests, pieces, delete, outgoing, rerr>>]_vars

\* C10 witness: a keep-alive was received from a peer that has unchoked us
\* and that we are interested in.
C10_Witness ==
    /\ received_keepalive >= 1 /\ pc[Reader] = "read"
    /\ ~peer_choking /\ am_interested

\* C11: after a dispatch or decode failure in PeerReader on an established
\* connection, PeerReader and PeerWriter both eventually return.
C11_BothTerminate ==
    (rerr # NoErr) ~> (pc[Writer] = "done" /\ pc[Reader] = "done")

\* C11 witness: PeerReader failed while dispatching, PeerWriter was in its
\* select loop with the announcement written, and both have returned.
C11_Witness ==
    /\ rerr = UnknownMessage /\ wireFirst # <<>>
    /\ pc[Writer] = "done" /\ pc[Reader] = "done"

\* PeerWriter has left its connection set-up (resolve, dial, set-timeout,
\* handshake) through an error branch
SetupFailed ==
    /\ pc[Writer] \in {"close", "closewire", "closeincoming", "done"}
    /\ remote_peerId = ""

\* C12: when resolve, dial, set-timeout or handshake fails PeerWriter sends
\* one exit message with the address, PeerReader is never launched and the
\* flags and the remote bitfield keep their initial values.
C12_SetupFailure ==
    SetupFailed =>
        /\ outgoing = << ExitMsg >>
        /\ pc[Reader] = "idle" /\ reads = 0
        /\ am_choking /\ ~am_interested /\ peer_choking /\ ~peer_interested
        /\ bitfield = 1 /\ objs = << NewBitfield(NumPieces) >>

\* C12 witness: the handshake failed and PeerWriter has returned.
C12_Witness ==
    /\ SetupFailed /\ wire /\ pc[Writer] = "done"
    /\ outgoing = << ExitMsg >>

\* am_interested, not peer_choking and p.bitfield not completed, after
\* the step
RequestCondition ==
    am_interested' /\ ~peer_choking' /\ ~Completed(objs'[bitfield'])

\* C13 as stated: a valid bitfield message after which am_interested is
\* true, peer_choking is false and the bitfield (local and remote) is not
\* completed sends a PieceRequest.
C13_RequestAfterBitfield ==
    [][(DispatchStep({bitfieldId}) /\ rerr' = NoErr
          /\ RequestCondition /\ ~Completed(our_bitfield)) =>
         Len(requests') = Len(requests) + 1]_vars

\* C13 amended: unchoke, have and piece send one PieceRequest exactly when
\* afterwards am_interested, not peer_choking and p.bitfield not completed;
\* a bitfield message sends none.
C13_RequestAfterThreeEvents ==
    [][/\ DispatchStep({unchoke, have, piece}) =>
            /\ RequestCondition => Len(requests') = Len(requests) + 1
            /\ ~RequestCondition => requests' = requests
       /\ DispatchStep({bitfieldId}) => requests' = requests]_vars

\* C13 witness: after an unchoke a bitfield message made the peer
\* interesting; the condition holds and no PieceRequest was sent.
C13_Witness ==
    /\ pc[Reader] = "read" /\ am_interested /\ ~peer_choking
    /\ bitfield # 0 /\ ~Completed(objs[bitfield])
    /\ requests = <<>>

\* C14: the bitfield of a PieceRequest the PieceMgr has not answered yet
\* holds what remoteBitfield held when the request was sent, whatever have
\* or bitfield messages were dispatched since.
C14_RequestBitfieldIsSnapshot ==
    \A k \in (answered + 1) .. Len(requests) :
        objs[requests[k].bitfield] = requests[k].atSend

\* A step of the select loop that takes the tick and writes a keep-alive
KeepAliveWritten ==
    /\ pc[Writer] = "select" /\ pc'[Writer] = "select"
    /\ tickReady /\ ~tickReady' /\ queue' = queue

\* A step of the select loop that takes a queued message and writes it
MessageWritten ==
    /\ pc[Writer] = "select" /\ pc'[Writer] = "select"
    /\ queue # <<>> /\ queue' = Tail(queue)

\* C15: no keep-alive is written while a message is pending on p.in, and
\* every successful write of a queued message restarts the keep-alive
\* interval.
C15_NoKeepAliveAheadOfMessage ==
    [][/\ KeepAliveWritten => queue = <<>>
       /\ MessageWritten => ~tickReady']_vars

\* The exit markers Close has sent on p.pieces
ExitMarkers == Cardinality({k \in 1 .. Len(pieces) : pieces[k] = ExitMsg})

\* C16: every close of the socket in Close comes after the exit marker with
\* the connection's address that the same Close sent on p.pieces, and
\* p.incoming is closed only after the socket is closed, in the Close of
\* PeerReader and in the Close of PeerWriter.
C16_ExitMarkerThenSocketThenIncoming ==
    /\ ExitMarkers
         = connCloses + Cardinality({t \in Tasks : pc[t] = "closewire"})
    /\ \A t \in Tasks : pc[t] = "closeincoming" => conn = "closed"
    /\ incomingClosed => conn = "closed"
    /\ incomingCloses <= connCloses

\* Both goroutines have run Close to its end
C16_Witness ==
    /\ pc[Writer] = "done" /\ pc[Reader] = "done"
    /\ connCloses = 2 /\ ExitMarkers = 2 /\ incomingClosed

\* C17: dispatching choke, interested, uninterested, request, port or
\* cancel changes at most the one flag of its case (peer_choking := true for
\* choke, peer_interested := true / false for interested / uninterested,
\* nothing for request, port and cancel); am_choking, am_interested and the
\* remote bitfield do not change, no interest notification and no
\* PieceRequest is sent, and cancel puts the message unchanged on p.delete.
C17_FlagOnlyMessages ==
    [][DispatchStep({choke, interested, uninterested, request, port, cancel})
         => /\ peer_choking' = (IF rmsg.msgId = choke THEN TRUE
                                ELSE peer_choking)
            /\ peer_interested' = (IF rmsg.msgId = interested THEN TRUE
                                   ELSE IF rmsg.msgId = uninterested
                                   THEN FALSE ELSE peer_interested)
            /\ UNCHANGED <<am_choking, am_interested, our_bitfield,
                           bitfield, objs>>
            /\ UNCHANGED <<notifs, queue, sendOnClosed, requests, pieces>>
            /\ delete' = (IF rmsg.msgId = cancel THEN Append(delete, rmsg)
                          ELSE delete)
            /\ rerr' = NoErr /\ pc'[Reader] = "read"]_vars

\* The peer has sent interested and cancel, and nothing that unchokes or
\* announces a piece
C17_Witness ==
    /\ pc[Reader] = "read" /\ reads >= 2
    /\ delete = << Msg(cancel, <<0>>) >>
    /\ peer_interested /\ peer_choking
    /\ am_choking /\ ~am_interested
    /\ notifs = <<>> /\ requests = <<>>

\* C18: no send on p.incoming is executed after Close has closed the
\* channel, neither by CheckInterested in PeerReader nor by the PieceMgr
\* answering a PieceRequest on its response channel.
C18_NoSendOnClosedIncoming == ~sendOnClosed

\* C19: a PieceRequest is sent only when, after the dispatch, am_interested
\* holds, peer_choking does not, and the remote bitfield is not complete,
\* whatever the local bitfield is.
C19_NoRequestWhenRemoteComplete ==
    [][Len(requests') > Len(requests)
         => /\ am_interested' /\ ~peer_choking'
            /\ bitfield' # 0 /\ ~Completed(objs'[bitfield'])]_vars

\* The peer has announced every piece and unchoked us, we miss a piece and
\* are interested, and no PieceRequest has been sent
C19_Witness ==
    /\ pc[Reader] = "read" /\ rerr = NoErr
    /\ bitfield # 0 /\ Completed(objs[bitfield])
    /\ ~Completed(our_bitfield)
    /\ am_interested /\ ~peer_choking
    /\ requests = <<>>

\* C20: once PeerWriter has returned, the socket it dialled is closed,
\* whichever step after the dial failed.
C20_DialledSocketClosed ==
    (pc[Writer] = "done" /\ conn # "none") => conn = "closed"

=============================================================================
